---- MODULE Spec2Model ----
(***************************************************************************)
(* Model of autoCFF's main.py: the GitHub platform client calls, the       *)
(* contribution aggregator (get_repository_contributors) and the ORCID     *)
(* identity resolver (search_github_user_for_orcid_robust and the          *)
(* functions it calls).  Every HTTP response is an input chosen by the     *)
(* environment; text is a tuple of one-character strings.                  *)
(***************************************************************************)
EXTENDS Integers, Sequences, FiniteSets, TLC

VARIABLES pc, op, outcome, retval, log, resp, warnings, sleeps,
          name, institution, numFound, results, i, details,
          contributors_data, contributors, k, repositoryDetails

vars == <<pc, op, outcome, retval, log, resp, warnings, sleeps,
          name, institution, numFound, results, i, details,
          contributors_data, contributors, k, repositoryDetails>>

resolverVars == <<retval, warnings, sleeps, name, institution, numFound,
                  results, i, details>>

aggregatorVars == <<contributors_data, contributors, k>>

-----------------------------------------------------------------------------
(* Bounds of the model.                                                    *)

MaxCands == 2

MaxAffs == 2

MaxContribs == 2

MaxStats == 2

MaxWeeks == 2

-----------------------------------------------------------------------------
(* Text.                                                                   *)

None == <<"None">>

NoneText == <<"N","o","n","e">>

Digits == {"0","1","2","3","4","5","6","7","8","9"}

UpperChars == {"A","B","C","D","E","F","G","H","I","J","K","L","M",
               "N","O","P","Q","R","S","T","U","V","W","X","Y","Z"}

LowerChars == {"a","b","c","d","e","f","g","h","i","j","k","l","m",
               "n","o","p","q","r","s","t","u","v","w","x","y","z"}

WordChars == Digits \cup UpperChars \cup LowerChars \cup {"_"}

OrcidUrlHead == <<"h","t","t","p">>

OrcidUrlTail == <<":","/","/","o","r","c","i","d",".","o","r","g","/">>

OrcidPrefix == <<"h","t","t","p","s",":","/","/","o","r","c","i","d",".","o","r","g","/">>

IdA == <<"0","0","0","0","-","0","0","0","2","-","4","3","2","1","-","2","1","8","0">>

IdB == <<"0","0","0","0","-","0","0","0","2","-","2","4","6","9","-","0","4","9","X">>

NameAnnLee == <<"A","n","n"," ","L","e","e">>

NameAnnBLee == <<"A","n","n"," ","B"," ","L","e","e">>

OrgMIT == <<"M","I","T">>

OrgIU == <<"I","n","d","i","a","n","a"," ","U","n","i","v","e","r","s","i","t","y">>

AffMIT == <<"M","a","s","s","a","c","h","u","s","e","t","t","s"," ","I","n","s","t","i","t","u","t","e"," ","o","f"," ","T","e","c","h","n","o","l","o","g","y">>

(* The literal lit occurs in t at position p.                              *)
HasAt(t, p, lit) ==
    /\ p >= 1
    /\ p + Len(lit) - 1 <= Len(t)
    /\ SubSeq(t, p, p + Len(lit) - 1) = lit

(* \d{n} at position p.                                                    *)
DigitsAt(t, p, n) ==
    /\ p + n - 1 <= Len(t)
    /\ \A q \in p..(p + n - 1) : t[q] \in Digits

(* \d{4}-\d{4}-\d{4}-\d{3}[0-9X]\b at position p.                          *)
IdAt(t, p) ==
    /\ p + 18 <= Len(t)
    /\ DigitsAt(t, p, 4) /\ t[p + 4] = "-"
    /\ DigitsAt(t, p + 5, 4) /\ t[p + 9] = "-"
    /\ DigitsAt(t, p + 10, 4) /\ t[p + 14] = "-"
    /\ DigitsAt(t, p + 15, 3)
    /\ t[p + 18] \in Digits \cup {"X"}
    /\ (p + 19 > Len(t) \/ t[p + 19] \notin WordChars)

(* Position just after a match of orcid_regex that starts at p, 0 if the   *)
(* regex does not match at p.                                              *)
MatchEnd(t, p) ==
    IF ~ (HasAt(t, p, OrcidUrlHead) /\ (p = 1 \/ t[p - 1] \notin WordChars))
    THEN 0
    ELSE IF HasAt(t, p + 4, <<"s">> \o OrcidUrlTail) /\ IdAt(t, p + 18)
         THEN p + 18 + 19
         ELSE IF HasAt(t, p + 4, OrcidUrlTail) /\ IdAt(t, p + 17)
              THEN p + 17 + 19
              ELSE 0

RECURSIVE FindAllFrom(_, _)
(* The scan of re.findall from position p on: the leftmost match, then the *)
(* scan resumed after its end.                                             *)
FindAllFrom(t, p) ==
    LET starts == { q \in p..Len(t) : MatchEnd(t, q) > 0 }
        first == CHOOSE q \in starts : \A r \in starts : q <= r
    IN  IF starts = {} THEN <<>>
        ELSE <<SubSeq(t, first, MatchEnd(t, first) - 1)>>
             \o FindAllFrom(t, MatchEnd(t, first))

(* re.findall(orcid_regex, text)                                           *)
FindAll(t) == FindAllFrom(t, 1)

(* repr of a str or of None                                                *)
Repr(v) == IF v = None THEN NoneText ELSE <<"'">> \o v \o <<"'">>

(* str() of a value put into an f-string                                   *)
Fmt(v) == IF v = None THEN NoneText ELSE v

(* str(user_data)                                                          *)
StrProfile(body) ==
    <<"{","'","n","a","m","e","'",":"," ">> \o Repr(body.name)
    \o <<","," ","'","c","o","m","p","a","n","y","'",":"," ">> \o Repr(body.company)
    \o <<","," ","'","b","i","o","'",":"," ">> \o Repr(body.bio) \o <<"}">>

RECURSIVE StrAccounts(_)
StrAccounts(urls) ==
    IF urls = <<>> THEN <<>>
    ELSE <<"{","'","u","r","l","'",":"," ">> \o Repr(Head(urls)) \o <<"}">>
         \o (IF Len(urls) > 1 THEN <<","," ">> ELSE <<>>) \o StrAccounts(Tail(urls))

(* str(social_accounts_data)                                               *)
StrSocial(urls) == <<"[">> \o StrAccounts(urls) \o <<"]">>

RECURSIVE Split(_, _)
(* s.split(sep) for a one-character separator                              *)
Split(s, sep) ==
    IF s = <<>> THEN << <<>> >>
    ELSE IF Head(s) = sep
         THEN << <<>> >> \o Split(Tail(s), sep)
         ELSE << <<Head(s)>> \o Head(Split(Tail(s), sep)) >> \o Tail(Split(Tail(s), sep))

(* name.split(" ")[0]                                                      *)
FirstToken(s) == Split(s, " ")[1]

(* name.split(" ")[-1]                                                     *)
LastToken(s) == Split(s, " ")[Len(Split(s, " "))]

AcronymNotLower(s) == SelectSeq(s, LAMBDA char : char \notin LowerChars)

(* "".join([char for char in name if char.isupper()])                      *)
Acronym(s) == SelectSeq(s, LAMBDA char : char \in UpperChars)

-----------------------------------------------------------------------------
(* Upstream responses.                                                     *)

Statuses == {200, 404}

NoMessage == <<>>

NotFoundMessage == <<"N","o","t"," ","F","o","u","n","d">>

BioOne == <<"s","e","e"," ">> \o OrcidPrefix \o IdA

BioTwo == OrcidUrlHead \o OrcidUrlTail \o IdB \o <<" ","a","n","d"," ">> \o OrcidPrefix \o IdA

BioLong == <<"i","d"," ">> \o OrcidPrefix \o IdA \o <<"7">>

BioGlued == <<"x">> \o OrcidPrefix \o IdB

Profiles ==
    { [name |-> NameAnnLee, company |-> OrgMIT, bio |-> None, message |-> NoMessage],
      [name |-> NameAnnBLee, company |-> OrgIU, bio |-> BioLong, message |-> NoMessage],
      [name |-> None, company |-> OrgMIT, bio |-> BioGlued, message |-> NoMessage],
      [name |-> NameAnnLee, company |-> None, bio |-> None, message |-> NoMessage],
      [name |-> NameAnnLee, company |-> OrgMIT, bio |-> BioOne, message |-> NoMessage],
      [name |-> None, company |-> None, bio |-> BioTwo, message |-> NoMessage] }

SocialLists ==
    { <<>>, <<OrcidPrefix \o IdB>>, <<BioGlued, OrcidPrefix \o IdA \o <<"/">>, OrcidUrlHead \o OrcidUrlTail \o IdB>> }

(* The JSON document of a failed request: a message and no other key.     *)
ProfileError == [name |-> None, company |-> None, bio |-> None, message |-> NotFoundMessage]

ProfileResponses ==
    { [status |-> 200, body |-> p] : p \in Profiles }
    \cup { [status |-> 404, body |-> ProfileError] }

SocialResponses ==
    { [status |-> 200, body |-> [urls |-> s, message |-> NoMessage]] : s \in SocialLists }
    \cup { [status |-> 404, body |-> [urls |-> <<>>, message |-> NotFoundMessage]] }

(* Records of the registry, as the search lists them.                      *)
Candidates ==
    { [path |-> IdA, uri |-> OrcidPrefix \o IdA],
      [path |-> IdB, uri |-> OrcidPrefix \o IdB] }

ResultLists == UNION { [1..n -> Candidates] : n \in 0..MaxCands }

TooManyThreshold == 10

NumFounds == {0, 1, TooManyThreshold, TooManyThreshold + 1}

(* A search response: num-found, and the result list, which holds at most  *)
(* num-found records and may be absent.                                    *)
SearchResponses ==
    { [status |-> 200, numFound |-> n, hasResult |-> TRUE, result |-> l] :
          <<n, l>> \in { y \in NumFounds \X ResultLists : Len(y[2]) <= y[1] } }
    \cup { [status |-> 200, numFound |-> n, hasResult |-> FALSE, result |-> <<>>] :
          n \in NumFounds }
    \cup { [status |-> 404, numFound |-> 0, hasResult |-> FALSE, result |-> <<>>] }

AffNames == {AffMIT, OrgIU}

Affiliation(n) == [organization |-> [name |-> n]]

AffLists == UNION { [1..n -> {Affiliation(a) : a \in AffNames}] : n \in 0..MaxAffs }

(* A detail response: the employment-summary list of the record.           *)
DetailResponses ==
    { [status |-> 200, affiliations |-> l] : l \in AffLists }
    \cup { [status |-> 404, affiliations |-> <<>>] }

(* Repository paths and the documents of GET /repos/{owner}/{repo}.        *)
RepoPaths == { <<"o","/","r">>, <<"h",":","/","/","g",".","c","/","o","/","r">>, <<"r">> }

RepoDocument == [full_name |-> <<"o","/","r">>, message |-> NoMessage]

RepoError == [full_name |-> None, message |-> NotFoundMessage]

EmptyDocument == [full_name |-> None, message |-> NoMessage]

RepoResponses ==
    { [status |-> 200, body |-> RepoDocument], [status |-> 404, body |-> RepoError] }

Logins == {"alice", "bob"}

ContributorEntries ==
    { [login |-> "alice", contributions |-> 3], [login |-> "bob", contributions |-> 1] }

ContributorLists == UNION { [1..n -> ContributorEntries] : n \in 0..MaxContribs }

ContributorResponses ==
    { [status |-> 200, data |-> l] : l \in ContributorLists }
    \cup { [status |-> 404, data |-> <<>>] }

SampleWeeksA ==
    << [w |-> 100, a |-> 3, d |-> 0], [w |-> 200, a |-> 0, d |-> 0],
       [w |-> 300, a |-> 0, d |-> 2], [w |-> 400, a |-> 1, d |-> 4] >>

SampleWeeksB ==
    << [w |-> 100, a |-> 0, d |-> 0], [w |-> 200, a |-> 0, d |-> 5],
       [w |-> 300, a |-> 2, d |-> 2], [w |-> 400, a |-> 0, d |-> 0] >>

WeekLists == { SubSeq(s, 1, n) : s \in {SampleWeeksA, SampleWeeksB}, n \in 0..MaxWeeks }

StatsEntries == { [author |-> [login |-> l], weeks |-> ws] : l \in Logins, ws \in WeekLists }

StatsLists == UNION { [1..n -> StatsEntries] : n \in 0..MaxStats }

(* GitHub answers 202 while it is still computing the statistics.          *)
StatsResponses ==
    { [status |-> 200, data |-> l] : l \in StatsLists }
    \cup { [status |-> 202, data |-> <<>>] }

-----------------------------------------------------------------------------
(* State after loading the module: nothing has been called.                *)

Pending == [kind |-> "pending", err |-> ""]

Returned == [kind |-> "return", err |-> ""]

Raised(e) == [kind |-> "raise", err |-> e]

Request(r, a) == [req |-> r, arg |-> a]

Init ==
    /\ pc = "idle"
    /\ op = "none"
    /\ outcome = Pending
    /\ retval = None
    /\ log = <<>>
    /\ resp = [req |-> "none", status |-> 0, body |-> NoMessage]
    /\ warnings = <<>>
    /\ sleeps = 0
    /\ name = None
    /\ institution = None
    /\ numFound = 0
    /\ results = <<>>
    /\ i = 0
    /\ details = <<>>
    /\ contributors_data = <<>>
    /\ contributors = <<>>
    /\ k = 0
    /\ repositoryDetails = EmptyDocument

-----------------------------------------------------------------------------
(* search_github_user_for_orcid_robust                                     *)

UserExistsAlways(status) == TRUE

(* Line 252.                                                               *)
UserExists(status) == status = 200

RobustPickLast(orcid_links) == orcid_links[Len(orcid_links)]

(* Line 262.                                                               *)
RobustPick(orcid_links) == orcid_links[1]

(* Lines 247-253: the existence check.                                     *)
ExistenceCheck ==
    /\ pc = "idle"
    /\ \E r \in ProfileResponses :
        /\ resp' = [req |-> "exists", status |-> r.status, body |-> r.body]
        /\ log' = Append(log, Request("profile", <<>>))
        /\ op' = "resolve"
        /\ IF UserExists(r.status)
           THEN /\ pc' = "scan"
                /\ outcome' = outcome
           ELSE /\ pc' = "done"
                /\ outcome' = Raised("ValueError")
    /\ UNCHANGED <<resolverVars, aggregatorVars, repositoryDetails>>

(* search_github_user_for_orcid, lines 97-108, and the caller's lines      *)
(* 260-264 when matches are returned.                                      *)
ProfileScan ==
    /\ pc = "scan"
    /\ \E r \in ProfileResponses :
        /\ resp' = [req |-> "scan", status |-> r.status, body |-> r.body]
        /\ log' = Append(log, Request("profile", <<>>))
        /\ IF r.status = 200 /\ FindAll(StrProfile(r.body)) # <<>>
           THEN /\ pc' = "done"
                /\ retval' = RobustPick(FindAll(StrProfile(r.body)))
                /\ outcome' = Returned
           ELSE /\ pc' = "social"
                /\ UNCHANGED <<retval, outcome>>
    /\ UNCHANGED <<op, warnings, sleeps, name, institution, numFound, results,
                   i, details, aggregatorVars, repositoryDetails>>

(* search_github_user_for_orcid, lines 110-125, and lines 260-264.         *)
SocialScan ==
    /\ pc = "social"
    /\ \E r \in SocialResponses :
        /\ resp' = [req |-> "social", status |-> r.status, body |-> r.body]
        /\ log' = Append(log, Request("social", <<>>))
        /\ IF r.status = 200 /\ FindAll(StrSocial(r.body.urls)) # <<>>
           THEN /\ pc' = "done"
                /\ retval' = RobustPick(FindAll(StrSocial(r.body.urls)))
                /\ outcome' = Returned
           ELSE /\ pc' = "getname"
                /\ UNCHANGED <<retval, outcome>>
    /\ UNCHANGED <<op, warnings, sleeps, name, institution, numFound, results,
                   i, details, aggregatorVars, repositoryDetails>>

(* get_name_and_institution_from_github_api, the unpacking at line 268     *)
(* and the name.split calls of lines 155-156.                              *)
GetNameAndInstitution ==
    /\ pc = "getname"
    /\ \E r \in ProfileResponses :
        /\ resp' = [req |-> "getname", status |-> r.status, body |-> r.body]
        /\ log' = Append(log, Request("profile", <<>>))
        /\ IF r.status # 200
           THEN /\ pc' = "done"
                /\ outcome' = Raised("TypeError")
                /\ UNCHANGED <<name, institution>>
           ELSE /\ name' = r.body.name
                /\ institution' = r.body.company
                /\ IF r.body.name = None
                   THEN /\ pc' = "done"
                        /\ outcome' = Raised("AttributeError")
                   ELSE /\ pc' = "exact"
                        /\ outcome' = outcome
    /\ UNCHANGED <<op, retval, warnings, sleeps, numFound, results, i, details,
                   aggregatorVars, repositoryDetails>>

AtLeastOne(n) == n >= 1

(* Line 171.                                                               *)
ExactlyOne(n) == n = 1

(* search_orcid_individual, lines 161-172.                                 *)
ExactSearch ==
    /\ pc = "exact"
    /\ \E r \in SearchResponses :
        /\ resp' = [req |-> "exact", status |-> r.status, body |-> r]
        /\ log' = Append(log, Request("exact",
                       <<FirstToken(name), LastToken(name), Fmt(institution)>>))
        /\ IF r.status = 200 /\ ExactlyOne(r.numFound)
           THEN /\ pc' = "done"
                /\ IF ~ r.hasResult
                   THEN outcome' = Raised("TypeError") /\ retval' = retval
                   ELSE IF r.result = <<>>
                        THEN outcome' = Raised("IndexError") /\ retval' = retval
                        ELSE outcome' = Returned /\ retval' = r.result[1].uri
           ELSE /\ pc' = "broad"
                /\ UNCHANGED <<outcome, retval>>
    /\ UNCHANGED <<op, warnings, sleeps, name, institution, numFound, results,
                   i, details, aggregatorVars, repositoryDetails>>

(* search_orcid_individual, lines 179-192: the broad search and the entry  *)
(* into the loop over its results.                                         *)
BroadSearch ==
    /\ pc = "broad"
    /\ \E r \in SearchResponses :
        /\ resp' = [req |-> "broad", status |-> r.status, body |-> r]
        /\ log' = Append(log, Request("broad",
                       <<FirstToken(name), LastToken(name)>>))
        /\ IF r.status # 200
           THEN /\ pc' = "done"
                /\ outcome' = Returned
                /\ retval' = None
                /\ UNCHANGED <<numFound, results, i>>
           ELSE /\ numFound' = r.numFound
                /\ results' = r.result
                /\ IF ~ r.hasResult
                   THEN /\ pc' = "done"
                        /\ outcome' = Raised("TypeError")
                        /\ UNCHANGED <<retval, i>>
                   ELSE IF r.result = <<>>
                        THEN /\ pc' = "done"
                             /\ outcome' = Returned
                             /\ retval' = None
                             /\ i' = i
                        ELSE /\ pc' = "loop"
                             /\ i' = 1
                             /\ UNCHANGED <<outcome, retval>>
    /\ UNCHANGED <<op, warnings, sleeps, name, institution, details,
                   aggregatorVars, repositoryDetails>>

(* Lines 194-196: the first statement of an iteration.                     *)
LoopTooMany ==
    /\ pc = "loop"
    /\ numFound > TooManyThreshold
    /\ warnings' = Append(warnings, numFound)
    /\ pc' = "done"
    /\ outcome' = Returned
    /\ retval' = None
    /\ UNCHANGED <<op, log, resp, sleeps, name, institution, numFound, results,
                   i, details, aggregatorVars, repositoryDetails>>

(* iAffiliation == institution compares a dict with a str or None.         *)
DictEqualsStr(d, s) == FALSE

(* Line 221.                                                               *)
AffiliationMatches(iAffiliation, inst) ==
    \/ Acronym(iAffiliation.organization.name) = inst
    \/ DictEqualsStr(iAffiliation, inst)

(* Lines 197-224: the rest of an iteration.                                *)
LoopDetail ==
    /\ pc = "loop"
    /\ ~ (numFound > TooManyThreshold)
    /\ sleeps' = sleeps + 1
    /\ \E r \in DetailResponses :
        /\ log' = Append(log, Request("detail", results[i].path))
        /\ details' = Append(details, r)
        /\ IF /\ r.status = 200
              /\ \E a \in 1..Len(r.affiliations) :
                     AffiliationMatches(r.affiliations[a], institution)
           THEN /\ pc' = "done"
                /\ outcome' = Returned
                /\ retval' = OrcidPrefix \o results[i].path
                /\ i' = i
           ELSE IF i < Len(results)
                THEN /\ i' = i + 1
                     /\ UNCHANGED <<pc, outcome, retval>>
                ELSE /\ pc' = "done"
                     /\ outcome' = Returned
                     /\ retval' = None
                     /\ i' = i
    /\ UNCHANGED <<op, resp, warnings, name, institution, numFound, results,
                   aggregatorVars, repositoryDetails>>

Next ==
    \/ ExistenceCheck
    \/ ProfileScan
    \/ SocialScan
    \/ GetNameAndInstitution
    \/ ExactSearch
    \/ BroadSearch
    \/ LoopTooMany
    \/ LoopDetail

Spec == Init /\ [][Next]_vars

-----------------------------------------------------------------------------
(* getTargetRepositoryDetails                                              *)

GetTargetRepositoryDetails ==
    /\ pc = "idle"
    /\ op' = "details"
    /\ pc' = "done"
    /\ \E repositoryPath \in RepoPaths :
        IF Len(Split(repositoryPath, "/")) < 2
        THEN /\ outcome' = Raised("IndexError")
             /\ UNCHANGED <<log, resp, repositoryDetails>>
        ELSE \E r \in RepoResponses :
             /\ log' = Append(log, Request("repo",
                    << Split(repositoryPath, "/")[Len(Split(repositoryPath, "/")) - 1],
                       Split(repositoryPath, "/")[Len(Split(repositoryPath, "/"))] >>))
             /\ resp' = [req |-> "repo", status |-> r.status, body |-> r.body]
             /\ repositoryDetails' = r.body
             /\ outcome' = Returned
    /\ UNCHANGED <<resolverVars, aggregatorVars>>

-----------------------------------------------------------------------------
(* get_repository_contributors                                             *)

RECURSIVE SumAdditions(_)
(* sum(week.get("a", 0) for week in weeks)                                 *)
SumAdditions(weeks) ==
    IF weeks = <<>> THEN 0 ELSE Head(weeks).a + SumAdditions(Tail(weeks))

RECURSIVE SumDeletions(_)
(* sum(week.get("d", 0) for week in weeks)                                 *)
SumDeletions(weeks) ==
    IF weeks = <<>> THEN 0 ELSE Head(weeks).d + SumDeletions(Tail(weeks))

TotalAdditionsOnly(weeks) == SumAdditions(weeks)

(* Line 77.                                                                *)
TotalChanges(weeks) == SumAdditions(weeks) + SumDeletions(weeks)

RECURSIVE ContributedDates(_)
(* [week.get("w") for week in weeks if week.get("a") or week.get("d")]     *)
ContributedDates(weeks) ==
    IF weeks = <<>> THEN <<>>
    ELSE (IF Head(weeks).a # 0 \/ Head(weeks).d # 0 THEN <<Head(weeks).w>> ELSE <<>>)
         \o ContributedDates(Tail(weeks))

RECURSIVE FirstMatch(_, _, _)
(* Index, from j on, of the entry at which the loop of lines 72-85 breaks; *)
(* 0 when the loop runs to its end.                                        *)
FirstMatch(stats_data, login, j) ==
    IF j > Len(stats_data) THEN 0
    ELSE IF stats_data[j].author.login = login THEN j
         ELSE FirstMatch(stats_data, login, j + 1)

NewContributorZeroVolume(contributor_data) ==
    [login |-> contributor_data.login,
     contributions |-> contributor_data.contributions,
     contributed_dates |-> <<>>,
     hasVolume |-> TRUE,
     volume |-> 0]

(* Lines 60-64: no "volume" key yet.                                       *)
NewContributor(contributor_data) ==
    [login |-> contributor_data.login,
     contributions |-> contributor_data.contributions,
     contributed_dates |-> <<>>,
     hasVolume |-> FALSE,
     volume |-> 0]

(* Lines 70-85.                                                            *)
WithStats(contributor, status, stats_data) ==
    IF status = 200 /\ FirstMatch(stats_data, contributor.login, 1) # 0
    THEN [contributor EXCEPT
            !.hasVolume = TRUE,
            !.volume = TotalChanges(stats_data[FirstMatch(stats_data, contributor.login, 1)].weeks),
            !.contributed_dates =
                ContributedDates(stats_data[FirstMatch(stats_data, contributor.login, 1)].weeks)]
    ELSE contributor

NoResponse == [req |-> "none", status |-> 0, body |-> NoMessage]

(* Lines 52-59.                                                            *)
FetchContributors ==
    /\ pc = "idle"
    /\ op' = "aggregate"
    /\ \E r \in ContributorResponses :
        /\ log' = Append(log, Request("contributors", <<>>))
        /\ resp' = [req |-> "contributors", status |-> r.status, body |-> r.data]
        /\ IF r.status = 200 /\ r.data # <<>>
           THEN /\ contributors_data' = r.data
                /\ k' = 1
                /\ pc' = "stats"
                /\ outcome' = outcome
           ELSE /\ contributors_data' = IF r.status = 200 THEN r.data ELSE contributors_data
                /\ k' = k
                /\ pc' = "done"
                /\ outcome' = Returned
    /\ UNCHANGED <<resolverVars, contributors, repositoryDetails>>

(* Lines 60-68: the request of one iteration.                              *)
StatsRequest ==
    /\ pc = "stats"
    /\ \E r \in StatsResponses :
        /\ log' = Append(log, Request("stats", <<>>))
        /\ resp' = [req |-> "stats", status |-> r.status, body |-> r.data]
    /\ pc' = "process"
    /\ UNCHANGED <<op, outcome, resolverVars, aggregatorVars, repositoryDetails>>

(* Lines 70-89: the rest of the iteration; the response is dropped.        *)
StatsProcess ==
    /\ pc = "process"
    /\ contributors' = Append(contributors,
            WithStats(NewContributor(contributors_data[k]), resp.status, resp.body))
    /\ resp' = NoResponse
    /\ IF k < Len(contributors_data)
       THEN /\ k' = k + 1
            /\ pc' = "stats"
            /\ outcome' = outcome
       ELSE /\ k' = k
            /\ pc' = "done"
            /\ outcome' = Returned
    /\ UNCHANGED <<op, log, resolverVars, contributors_data, repositoryDetails>>

NextAgg ==
    \/ GetTargetRepositoryDetails
    \/ FetchContributors
    \/ StatsRequest
    \/ StatsProcess

SpecAgg == Init /\ [][NextAgg]_vars

-----------------------------------------------------------------------------
(* Properties.                                                             *)

NoRequest(kind) == \A j \in 1..Len(log) : log[j].req # kind

CountRequests(kind) == Cardinality({ j \in 1..Len(log) : log[j].req = kind })

(* The uppercase characters of s, in order.                                *)
UpperOnly(s) ==
    LET idx == { j \in 1..Len(s) : s[j] \in UpperChars }
    IN  [n \in 1..Cardinality(idx) |->
            s[CHOOSE j \in idx : Cardinality({ h \in idx : h <= j }) = n]]

(* Additions plus deletions over all weeks.                                *)
VolumeOf(weeks) ==
    LET S[n \in 0..Len(weeks)] ==
            IF n = 0 THEN 0 ELSE S[n - 1] + weeks[n].a + weeks[n].d
    IN  S[Len(weeks)]

(* Week starts of the weeks with a nonzero addition or deletion count.     *)
ActiveDates(weeks) ==
    LET act == SelectSeq(weeks, LAMBDA wk : wk.a # 0 \/ wk.d # 0)
    IN  [j \in 1..Len(act) |-> act[j].w]

HasEntryFor(stats_data, login) ==
    \E j \in 1..Len(stats_data) : stats_data[j].author.login = login

FirstEntryFor(stats_data, login) ==
    stats_data[CHOOSE j \in 1..Len(stats_data) :
                  /\ stats_data[j].author.login = login
                  /\ \A h \in 1..(j - 1) : stats_data[h].author.login # login]

(* C1: when the profile read by the profile scan holds one or more PID     *)
(* links, the resolution ends there returning the first link matched, and  *)
(* no social-links request, registry search or registry detail request has *)
(* been issued.                                                            *)
C1_ProfileLinkFirst ==
    (resp.req = "scan" /\ resp.status = 200 /\ FindAll(StrProfile(resp.body)) # <<>>)
    => /\ pc = "done"
       /\ outcome = Returned
       /\ retval = FindAll(StrProfile(resp.body))[1]
       /\ NoRequest("social") /\ NoRequest("exact")
       /\ NoRequest("broad") /\ NoRequest("detail")

C1_Witness ==
    /\ pc = "done" /\ resp.req = "scan" /\ outcome = Returned
    /\ Len(FindAll(StrProfile(resp.body))) = 2
    /\ retval = OrcidUrlHead \o OrcidUrlTail \o IdB

(* C2: when the initial existence fetch returns a non-200 status the call  *)
(* has ended with the ValueError, nothing is returned, and the existence   *)
(* fetch is the only request made.                                         *)
C2_NotFoundAborts ==
    (resp.req = "exists" /\ resp.status # 200)
    => /\ pc = "done"
       /\ outcome = Raised("ValueError")
       /\ retval = None
       /\ Len(log) = 1

C2_Witness ==
    /\ resp.req = "exists" /\ resp.status = 404
    /\ pc = "done" /\ outcome.kind = "raise"

(* C3: a resolution that ends with an error ends with the ValueError of    *)
(* the initial existence check; once that check has passed the call        *)
(* returns a PID or None.                                                  *)
C3_OnlyNotFoundRaises ==
    (op = "resolve" /\ pc = "done")
    => \/ outcome = Returned
       \/ outcome = Raised("ValueError") /\ Len(log) = 1

(* C4: when the exact search reports exactly one record, that record's PID *)
(* is returned and neither a broad search nor a detail fetch is made; with *)
(* any other count the resolution goes on to the broad search.             *)
C4_ExactSingleMatch ==
    (resp.req = "exact" /\ resp.status = 200)
    => IF resp.body.numFound = 1
       THEN (resp.body.hasResult /\ resp.body.result # <<>>)
            => /\ pc = "done"
               /\ outcome = Returned
               /\ retval = resp.body.result[1].uri
               /\ NoRequest("broad") /\ NoRequest("detail")
       ELSE /\ pc = "broad"
            /\ outcome = Pending
            /\ NoRequest("broad") /\ NoRequest("detail")

C4_Witness ==
    /\ resp.req = "exact" /\ resp.status = 200 /\ resp.body.numFound = 1
    /\ pc = "done" /\ outcome = Returned
    /\ retval = OrcidPrefix \o IdB
    /\ NoRequest("broad")
    /\ log[Len(log)].arg = << <<"A","n","n">>, <<"L","e","e">>, OrgIU >>

(* C5: when the broad search reports more than 10 records the call returns *)
(* None, one warning is recorded and no detail fetch is made, whatever the *)
(* length of the result list, zero included.                               *)
C5_TooManyWarns ==
    (resp.req = "broad" /\ resp.status = 200 /\ resp.body.hasResult
        /\ resp.body.numFound > TooManyThreshold /\ pc = "done")
    => /\ outcome = Returned
       /\ retval = None
       /\ Len(warnings) = 1
       /\ NoRequest("detail")

(* C6: with at most 10 records reported, a candidate whose detail record   *)
(* came back with status 200 and holds an affiliation whose uppercase      *)
(* characters spell the declared organization ends the call: its PID is    *)
(* returned, it is the first such candidate and the last one fetched.      *)
C6_AcronymAccepted ==
    \A j \in 1..Len(details) :
        (/\ details[j].status = 200
         /\ \E a \in 1..Len(details[j].affiliations) :
               UpperOnly(details[j].affiliations[a].organization.name) = institution)
        => /\ pc = "done"
           /\ outcome = Returned
           /\ retval = OrcidPrefix \o results[j].path
           /\ j = Len(details)
           /\ CountRequests("detail") = j
           /\ log[Len(log)] = Request("detail", results[j].path)

C6_Witness ==
    /\ pc = "done" /\ outcome = Returned
    /\ institution = OrgMIT
    /\ numFound <= TooManyThreshold
    /\ Len(details) = 2 /\ Len(results) = 2
    /\ results[1].path = IdA /\ results[2].path = IdB
    /\ details[1].status = 200 /\ details[1].affiliations = <<Affiliation(OrgIU)>>
    /\ details[2].affiliations = <<Affiliation(OrgIU), Affiliation(AffMIT)>>
    /\ retval = OrcidPrefix \o IdB

(* C7: a candidate whose detail record holds an affiliation whose raw name *)
(* equals the declared organization is accepted and its PID returned.      *)
C7_RawNameAccepted ==
    \A j \in 1..Len(details) :
        (/\ details[j].status = 200
         /\ \E a \in 1..Len(details[j].affiliations) :
               details[j].affiliations[a].organization.name = institution)
        => /\ pc = "done"
           /\ outcome = Returned
           /\ retval = OrcidPrefix \o results[j].path

(* C8: every step of the aggregation appends the Contributor of the next   *)
(* entry of the contributor list; when the statistics fetch is not a 200   *)
(* or holds no entry for the login, that Contributor has no volume and no  *)
(* activity dates; the call returns one Contributor per entry.             *)
C8_UnmatchedKept ==
    [][ (pc = "process")
        => /\ Len(contributors') = k
           /\ SubSeq(contributors', 1, k - 1) = contributors
           /\ contributors'[k].login = contributors_data[k].login
           /\ contributors'[k].contributions = contributors_data[k].contributions
           /\ (resp.status # 200 \/ ~ HasEntryFor(resp.body, contributors_data[k].login))
              => /\ ~ contributors'[k].hasVolume
                 /\ contributors'[k].contributed_dates = <<>>
           /\ (pc' = "done")
              => /\ outcome' = Returned
                 /\ Len(contributors') = Len(contributors_data) ]_vars

C8_Witness ==
    /\ op = "aggregate" /\ pc = "done" /\ outcome = Returned
    /\ Len(contributors) = 2
    /\ contributors[1].login = "bob" /\ ~ contributors[1].hasVolume
    /\ contributors[1].contributed_dates = <<>>
    /\ contributors[2].login = "alice" /\ contributors[2].hasVolume
    /\ contributors[2].volume = 5

(* C9: a platform fetch that comes back with a non-200 status hands the    *)
(* caller an empty result and not the body of the failed response.         *)
C9_FailSoft ==
    /\ (resp.req = "repo" /\ resp.status # 200)
       => (outcome = Returned /\ repositoryDetails = EmptyDocument)
    /\ (resp.req = "contributors" /\ resp.status # 200)
       => (outcome = Returned /\ contributors = <<>>)

====
